---- MODULE Spec2Model ----
(***************************************************************************)
(* A model of the Google Search Console MCP server (package mcp_gsc):      *)
(* the helper functions of utils.py, the service factory of auth.py and    *)
(* the tool and resource handlers of tools.py and resources.py.            *)
(*                                                                         *)
(* Python str values are TLA+ strings; dicts are functions whose DOMAIN is *)
(* the set of keys present; lists are sequences.  A Python call that may   *)
(* raise is an operator returning [raised |-> FALSE, value |-> v] or       *)
(* [raised |-> TRUE, error |-> text], text being str(exception).           *)
(***************************************************************************)
EXTENDS Integers, Sequences, FiniteSets, TLC

VARIABLES
    pc,            \* position of the running handler
    op,            \* name of the handler being run
    args,          \* its arguments
    now,           \* datetime.now(), as a day number since 1970-01-01
    token,         \* local `token` (result of get_access_token())
    access_token,  \* local `access_token`
    service,       \* local `service`
    decoded_url,   \* local `decoded_url` (resources)
    date_range,    \* locals `start_date`, `end_date` (resources)
    sent,          \* remote calls issued by this invocation, in order
    response,      \* local `response`
    outcome,       \* what the handler gave its caller
    failure,       \* str(e) of the exception caught by the handler, if any
    steps,         \* steps of the handler run so far, in order
    fn,            \* pure-function harness: function applied
    arg,           \* pure-function harness: its input
    ret,           \* pure-function harness: its output
    frames         \* concurrent invocations: the frame of each, in call order

dispVars == <<pc, op, args, now, token, access_token, service, decoded_url,
              date_range, sent, response, outcome, failure, steps>>
pureVars == <<fn, arg, ret, frames>>
vars == <<pc, op, args, now, token, access_token, service, decoded_url,
          date_range, sent, response, outcome, failure, steps, fn, arg, ret,
          frames>>

----------------------------------------------------------------------------
(* Bounds *)

MaxTextParts == 4
MaxPairParts == 2
MaxRows == 2
MaxKeys == 2
MaxDays == 30
MaxInvocations == 2

----------------------------------------------------------------------------
(* Strings *)

\* Python `p in s` for strings
Contains(s, p) ==
    \E i \in 1..(Len(s) - Len(p) + 1) : SubSeq(s, i, i + Len(p) - 1) = p

RECURSIVE Cat(_)
\* "".join(parts)
Cat(parts) == IF parts = <<>> THEN "" ELSE Head(parts) \o Cat(Tail(parts))

\* all sequences over S of length 0..n
SeqsUpTo(S, n) == UNION {[1..k -> S] : k \in 0..n}

----------------------------------------------------------------------------
(* Dates: datetime.strptime, datetime.strftime and timedelta *)

\* s[i] as a one-character string, "" past the end of s
At(s, i) == IF i \in 1..Len(s) THEN SubSeq(s, i, i) ELSE ""

DecimalDigits == "0123456789"
IsDigit(c) == \E i \in 1..10 : At(DecimalDigits, i) = c
DigitValue(c) == (CHOOSE i \in 1..10 : At(DecimalDigits, i) = c) - 1

RECURSIVE ToInt(_)
\* int(s) for a string of decimal digits
ToInt(s) ==
    IF s = "" THEN 0
    ELSE 10 * ToInt(SubSeq(s, 1, Len(s) - 1)) + DigitValue(At(s, Len(s)))

IsLeap(y) == y % 4 = 0 /\ (y % 100 # 0 \/ y % 400 = 0)

DaysInMonth(y, m) ==
    IF m = 2 THEN (IF IsLeap(y) THEN 29 ELSE 28)
    ELSE IF m \in {4, 6, 9, 11} THEN 30 ELSE 31

\* the length of the text at position p that %m matches when a "-" must
\* follow it (1[0-2]|0[1-9]|[1-9]); 0 when there is none
MonthLen(s, p) ==
    LET a == At(s, p)
        b == At(s, p + 1)
    IN  IF /\ \/ a = "1" /\ b \in {"0", "1", "2"}
              \/ a = "0" /\ IsDigit(b) /\ b # "0"
           /\ At(s, p + 2) = "-" THEN 2
        ELSE IF IsDigit(a) /\ a # "0" /\ b = "-" THEN 1
        ELSE 0

\* the length of the text at position p that %d matches
\* (3[01]|[12]\d|0[1-9]|[1-9]| [1-9]); 0 when there is none
DayLen(s, p) ==
    LET a == At(s, p)
        b == At(s, p + 1)
    IN  IF a = "3" /\ b \in {"0", "1"} THEN 2
        ELSE IF a \in {"1", "2"} /\ IsDigit(b) THEN 2
        ELSE IF a = "0" /\ IsDigit(b) /\ b # "0" THEN 2
        ELSE IF IsDigit(a) /\ a # "0" THEN 1
        ELSE IF a = " " /\ IsDigit(b) /\ b # "0" THEN 2
        ELSE 0

\* the digits of a %d match (a leading space dropped)
DayDigits(s, p, n) ==
    IF At(s, p) = " " THEN At(s, p + 1) ELSE SubSeq(s, p, p + n - 1)

\* datetime.strptime(date_str, "%Y-%m-%d") returns rather than raising
\* ValueError: the format matches at the start, nothing is left after the
\* match, and the year, month and day make a date
StrptimeAccepts(date_str) ==
    /\ \A i \in 1..4 : IsDigit(At(date_str, i))
    /\ At(date_str, 5) = "-"
    /\ LET ml == MonthLen(date_str, 6)
           dp == 6 + ml + 1
           dl == DayLen(date_str, dp)
       IN  /\ ml > 0
           /\ dl > 0
           /\ dp + dl - 1 = Len(date_str)
           /\ ToInt(SubSeq(date_str, 1, 4)) >= 1
           /\ ToInt(DayDigits(date_str, dp, dl))
                 <= DaysInMonth(ToInt(SubSeq(date_str, 1, 4)),
                                ToInt(SubSeq(date_str, 6, 6 + ml - 1)))

\* every date string is valid
validate_date_AcceptAll(date_str) == TRUE

validate_date(date_str) == StrptimeAccepts(date_str)

\* str(n) padded with zeros on the left to the given width
Pad(n, width) ==
    LET t == ToString(n)
    IN  IF Len(t) >= width THEN t
        ELSE SubSeq("0000", 1, width - Len(t)) \o t

\* strftime("%Y-%m-%d") of the day numbered `day` from 1970-01-01 (day >= 0)
Strftime(day) ==
    LET z == day + 719468
        era == z \div 146097
        doe == z - era * 146097
        yoe == (doe - doe \div 1460 + doe \div 36524 - doe \div 146096) \div 365
        doy == doe - (365 * yoe + yoe \div 4 - yoe \div 100)
        mp == (5 * doy + 2) \div 153
        d == doy - (153 * mp + 2) \div 5 + 1
        m == IF mp < 10 THEN mp + 3 ELSE mp - 9
        y == yoe + era * 400 + (IF m <= 2 THEN 1 ELSE 0)
    IN  Pad(y, 4) \o "-" \o Pad(m, 2) \o "-" \o Pad(d, 2)

\* the range ends today, without the 3 days of delay
get_date_range_NoDelay(days, today) ==
    <<Strftime(today - days), Strftime(today)>>

\* utils.get_date_range, today being the day numbered `today`
get_date_range(days, today) ==
    LET end_date == today - 3
        start_date == end_date - days
    IN  <<Strftime(start_date), Strftime(end_date)>>

----------------------------------------------------------------------------
(* utils.decode_site_url: urllib.parse.unquote *)

HexDigits == "0123456789ABCDEF"
LowerHexDigits == "0123456789abcdef"
IsHex(c) == \E i \in 1..16 : At(HexDigits, i) = c \/ At(LowerHexDigits, i) = c
HexValue(c) ==
    (CHOOSE i \in 1..16 : At(HexDigits, i) = c \/ At(LowerHexDigits, i) = c) - 1

\* the characters with codes 32..95 and 97..126, in order
AsciiLow == " !\"#$%&'()*+,-./0123456789:;<=>?@ABCDEFGHIJKLMNOPQRSTUVWXYZ[\\]^_"
AsciiHigh == "abcdefghijklmnopqrstuvwxyz{|}~"

\* the character a %XX escape stands for; a code that no character of the
\* two tables has (a control character, a grave accent, a byte of a
\* multi-byte character) is kept marked
UnescapedChar(hi, lo) ==
    LET code == 16 * HexValue(hi) + HexValue(lo)
    IN  IF code \in 32..95 THEN At(AsciiLow, code - 31)
        ELSE IF code \in 97..126 THEN At(AsciiHigh, code - 96)
        ELSE "<" \o hi \o lo \o ">"

RECURSIVE Unquote(_, _)
\* unquote of the text of s from position i on
Unquote(s, i) ==
    IF i > Len(s) THEN ""
    ELSE IF At(s, i) = "%" /\ IsHex(At(s, i + 1)) /\ IsHex(At(s, i + 2))
         THEN UnescapedChar(At(s, i + 1), At(s, i + 2)) \o Unquote(s, i + 3)
         ELSE At(s, i) \o Unquote(s, i + 1)

\* the text is decoded a second time
decode_site_url_Twice(encoded_url) == Unquote(Unquote(encoded_url, 1), 1)

decode_site_url(encoded_url) == Unquote(encoded_url, 1)

\* the characters quote never escapes
Unreserved ==
    "ABCDEFGHIJKLMNOPQRSTUVWXYZabcdefghijklmnopqrstuvwxyz0123456789_.-~"

\* the code of a character of the two tables
CharCode(c) ==
    IF \E i \in 1..Len(AsciiLow) : At(AsciiLow, i) = c
    THEN 31 + (CHOOSE i \in 1..Len(AsciiLow) : At(AsciiLow, i) = c)
    ELSE 96 + (CHOOSE i \in 1..Len(AsciiHigh) : At(AsciiHigh, i) = c)

\* '%XX', the escape of the byte with the given code, in upper-case hex
Escape(code) ==
    "%" \o At(HexDigits, (code \div 16) + 1) \o At(HexDigits, (code % 16) + 1)

RECURSIVE Quote(_, _)
\* quote(s, safe='') of the text of s from position i on
Quote(s, i) ==
    IF i > Len(s) THEN ""
    ELSE (IF \E j \in 1..Len(Unreserved) : At(Unreserved, j) = At(s, i)
          THEN At(s, i) ELSE Escape(CharCode(At(s, i)))) \o Quote(s, i + 1)

encode_site_url(site_url) == Quote(site_url, 1)

----------------------------------------------------------------------------
(* utils.format_error_message *)

PermissionDeniedMsg ==
    "Permission denied. Please check that you have access to this site in Google Search Console."
NotFoundMsg == "Resource not found. Please verify the site URL or resource path."
UnauthenticatedMsg == "Authentication failed. Please re-authenticate with Google."
RateLimitedMsg == "Rate limit exceeded. Please try again later."

\* the 404 test made before the 403 test
format_error_message_404First(error_str) ==
    IF Contains(error_str, "404") THEN NotFoundMsg
    ELSE IF Contains(error_str, "403") THEN PermissionDeniedMsg
    ELSE IF Contains(error_str, "401") THEN UnauthenticatedMsg
    ELSE IF Contains(error_str, "429") THEN RateLimitedMsg
    ELSE IF Contains(error_str, "400") THEN "Invalid request: " \o error_str
    ELSE "An error occurred: " \o error_str

\* the original text appended to each of the fixed messages
format_error_message_Echo(error_str) ==
    IF Contains(error_str, "403") THEN PermissionDeniedMsg \o " " \o error_str
    ELSE IF Contains(error_str, "404") THEN NotFoundMsg \o " " \o error_str
    ELSE IF Contains(error_str, "401") THEN UnauthenticatedMsg \o " " \o error_str
    ELSE IF Contains(error_str, "429") THEN RateLimitedMsg \o " " \o error_str
    ELSE IF Contains(error_str, "400") THEN "Invalid request: " \o error_str
    ELSE "An error occurred: " \o error_str

\* a text without any of the codes is taken for a bad request
format_error_message_BadRequest(error_str) ==
    IF Contains(error_str, "403") THEN PermissionDeniedMsg
    ELSE IF Contains(error_str, "404") THEN NotFoundMsg
    ELSE IF Contains(error_str, "401") THEN UnauthenticatedMsg
    ELSE IF Contains(error_str, "429") THEN RateLimitedMsg
    ELSE "Invalid request: " \o error_str

format_error_message(error_str) ==
    IF Contains(error_str, "403") THEN PermissionDeniedMsg
    ELSE IF Contains(error_str, "404") THEN NotFoundMsg
    ELSE IF Contains(error_str, "401") THEN UnauthenticatedMsg
    ELSE IF Contains(error_str, "429") THEN RateLimitedMsg
    ELSE IF Contains(error_str, "400") THEN "Invalid request: " \o error_str
    ELSE "An error occurred: " \o error_str

----------------------------------------------------------------------------
(* Python values *)

None == [kind |-> "None"]

\* an optional value (an argument the caller may omit, a key a dict may
\* lack): absent, or present with the given value
Absent == [present |-> FALSE]
Present(v) == [present |-> TRUE, value |-> v]

\* the outcome of a call: a value returned, or an exception with text str(e)
Return(v) == [raised |-> FALSE, value |-> v]
Raise(text) == [raised |-> TRUE, error |-> text]

\* A float is the decimal number val / 10^6 together with the sign err of
\* (the binary double - that decimal): 0 when the decimal is a double.
Float(val, err) == [val |-> val, err |-> err]

\* A float that gets multiplied by 100: the float val / 10^6 with error sign
\* err, and the sign err100 of (the double product by 100 - val / 10^4); the
\* product is rounded to a double again, so err100 is not always err.
Ratio(val, err, err100) == [val |-> val, err |-> err, err100 |-> err100]

\* the int 0, the default of the metrics
Zero == Ratio(0, 0, 0)

RECURSIVE Pow10(_)
Pow10(n) == IF n = 0 THEN 1 ELSE 10 * Pow10(n - 1)

\* x * 100
Times100(x) == Float(x.val * 100, x.err100)

\* round(x, ndigits) for ndigits in 0..6: the multiple of 10^-ndigits nearest
\* to the double; a double exactly half-way goes to the even multiple.  The
\* result is given as its decimal value times 10^6.
py_round(x, ndigits) ==
    LET unit == Pow10(6 - ndigits)
        q == x.val \div unit
        r == x.val % unit
    IN  IF 2 * r < unit THEN q * unit
        ELSE IF 2 * r > unit THEN (q + 1) * unit
        ELSE IF x.err < 0 THEN q * unit
        ELSE IF x.err > 0 THEN (q + 1) * unit
        ELSE IF q % 2 = 0 THEN q * unit ELSE (q + 1) * unit

\* the default is given whether the dict has the key or not
Get_Default(d, key, default) == default

\* dict.get(key, default)
Get(d, key, default) == IF key \in DOMAIN d THEN d[key] ELSE default

----------------------------------------------------------------------------
(* utils.format_analytics_response *)

\* the dimensions numbered from 1
DimensionField_OneBased(i) == "dimension_" \o ToString(i + 1)

\* f'dimension_{i}'
DimensionField(i) == "dimension_" \o ToString(i)

MetricFields == {"clicks", "impressions", "ctr", "position"}

\* only the metrics the raw row has are put in the formatted row
FormatRow_OnlyPresent(row) ==
    LET keys == IF "keys" \in DOMAIN row THEN row["keys"] ELSE <<>>
        dims == {DimensionField(i - 1) : i \in 1..Len(keys)}
        keyOf(f) == keys[CHOOSE i \in 1..Len(keys) : DimensionField(i - 1) = f]
    IN  [f \in dims \cup (MetricFields \cap DOMAIN row) |->
            IF f \in dims THEN keyOf(f)
            ELSE IF f = "ctr" THEN py_round(Times100(row[f]), 2)
            ELSE IF f = "position" THEN py_round(row[f], 1)
            ELSE row[f]]

\* the body of the loop over rows: the formatted row of one raw row
FormatRow(row) ==
    LET keys == IF "keys" \in DOMAIN row THEN row["keys"] ELSE <<>>
        dims == {DimensionField(i - 1) : i \in 1..Len(keys)}
        keyOf(f) == keys[CHOOSE i \in 1..Len(keys) : DimensionField(i - 1) = f]
    IN  [f \in dims \cup MetricFields |->
            IF f \in dims THEN keyOf(f)
            ELSE IF f = "clicks" THEN Get(row, "clicks", 0)
            ELSE IF f = "impressions" THEN Get(row, "impressions", 0)
            ELSE IF f = "ctr" THEN py_round(Times100(Get(row, "ctr", Zero)), 2)
            ELSE py_round(Get(row, "position", Zero), 1)]

RECURSIVE FormatRows_Prepend(_, _)
\* every formatted row is put before the rows formatted so far
FormatRows_Prepend(rows, formatted_rows) ==
    IF rows = <<>> THEN Return(formatted_rows)
    ELSE IF Head(rows) = None
         THEN Raise("argument of type 'NoneType' is not iterable")
         ELSE FormatRows_Prepend(Tail(rows), <<FormatRow(Head(rows))>> \o formatted_rows)

RECURSIVE FormatRows(_, _)
\* the loop `for row in rows`, formatted_rows being the rows appended so far
FormatRows(rows, formatted_rows) ==
    IF rows = <<>> THEN Return(formatted_rows)
    ELSE IF Head(rows) = None
         THEN Raise("argument of type 'NoneType' is not iterable")
         ELSE FormatRows(Tail(rows), Append(formatted_rows, FormatRow(Head(rows))))

\* the return statement, given the outcome of the loop
AnalyticsResult(looped) ==
    IF looped.raised THEN looped
    ELSE Return([rows |-> looped.value, total_rows |-> Len(looped.value)])

\* response['rows'] in place of response.get('rows', [])
format_analytics_response_Subscript(raw) ==
    IF "rows" \notin DOMAIN raw THEN Raise("'rows'")
    ELSE AnalyticsResult(FormatRows(raw["rows"], <<>>))

format_analytics_response(raw) ==
    AnalyticsResult(FormatRows(Get(raw, "rows", <<>>), <<>>))

----------------------------------------------------------------------------
(* Values of the handler's locals before anything is assigned *)

NoArgs == [site_url |-> "", start_date |-> "", end_date |-> "",
           dimensions |-> Absent, row_limit |-> 0, start_row |-> 0,
           feedpath |-> "", inspection_url |-> "", language_code |-> "",
           omitted |-> {}]
NoOutcome == [kind |-> "none"]

\* the handler's locals before it assigns them
FreshLocals ==
    /\ token = None /\ access_token = "" /\ service = None
    /\ decoded_url = "" /\ date_range = <<"", "">> /\ sent = <<>>
    /\ response = None /\ outcome = NoOutcome /\ failure = "" /\ steps = <<>>

\* no handler is running and none has run
DispatchIdle ==
    /\ pc = "idle" /\ op = "none" /\ args = NoArgs /\ now = 0
    /\ FreshLocals
    /\ frames = <<>>

\* the pure-function harness is not in use
PureIdle == fn = "none" /\ arg = None /\ ret = None

----------------------------------------------------------------------------
(* Specification SpecErr: format_error_message applied to failure texts *)

\* the pieces failure texts are made of: the digits of the five codes one by
\* one (so that codes overlap and are cut short), the codes, another character
TextParts == {"4", "0", "3", "1", "2", "9", "x",
              "403", "404", "401", "429", "400"}

\* every text made of 0..n pieces
Texts(n) == {Cat(cs) : cs \in SeqsUpTo(TextParts, n)}

InitErr == DispatchIdle /\ fn = "none" /\ arg \in Texts(MaxTextParts) /\ ret = None

ApplyFormatErrorMessage ==
    /\ fn = "none"
    /\ fn' = "format_error_message"
    /\ ret' = format_error_message(arg)
    /\ UNCHANGED <<arg, frames, dispVars>>

NextErr == ApplyFormatErrorMessage

SpecErr == InitErr /\ [][NextErr]_vars

----------------------------------------------------------------------------
(* C1: format_error_message classifies a failure text by substring search, *)
(* first match winning in the order 403, 404, 401, 429, 400, else unknown: *)
(* the result is the permission-denied message if the text contains "403", *)
(* otherwise not-found if it contains "404", otherwise unauthenticated if  *)
(* it contains "401", otherwise rate-limited if it contains "429",         *)
(* otherwise "Invalid request: <text>" if it contains "400", otherwise     *)
(* "An error occurred: <text>".                                            *)
C1_FirstMatchWins ==
    fn = "format_error_message" =>
        LET has(code) == Contains(arg, code) IN
        /\ has("403") => ret = PermissionDeniedMsg
        /\ (has("404") /\ ~has("403")) => ret = NotFoundMsg
        /\ (has("401") /\ ~has("403") /\ ~has("404")) => ret = UnauthenticatedMsg
        /\ (has("429") /\ ~has("403") /\ ~has("404") /\ ~has("401"))
              => ret = RateLimitedMsg
        /\ (has("400") /\ ~has("403") /\ ~has("404") /\ ~has("401") /\ ~has("429"))
              => ret = "Invalid request: " \o arg
        /\ (~has("400") /\ ~has("403") /\ ~has("404") /\ ~has("401") /\ ~has("429"))
              => ret = "An error occurred: " \o arg

\* a text with both "404" and "403" in it (404 first) has been classified
C1_Witness ==
    /\ fn = "format_error_message"
    /\ arg = "40403"
    /\ ret = PermissionDeniedMsg

----------------------------------------------------------------------------
(* Specification SpecErr2: format_error_message applied to two failures *)

PairParts == {"403", "404", "401", "429", "400", "x"}
PairTexts(n) == {Cat(cs) : cs \in SeqsUpTo(PairParts, n)}

InitErr2 ==
    /\ DispatchIdle
    /\ fn = "none"
    /\ arg \in PairTexts(MaxPairParts) \X PairTexts(MaxPairParts)
    /\ ret = <<>>

\* the next of the two failures is categorized
CategorizeNext ==
    /\ Len(ret) < Len(arg)
    /\ fn' = "format_error_message"
    /\ ret' = Append(ret, format_error_message(arg[Len(ret) + 1]))
    /\ UNCHANGED <<arg, frames, dispVars>>

NextErr2 == CategorizeNext

SpecErr2 == InitErr2 /\ [][NextErr2]_vars

\* no code of higher priority than `code` is in text t
NoHigher(t, code) ==
    \A c \in CASE code = "403" -> {}
               [] code = "404" -> {"403"}
               [] code = "401" -> {"403", "404"}
               [] code = "429" -> {"403", "404", "401"} : ~Contains(t, c)

(* C2: error categorization depends on the failure's text alone: two       *)
(* failures with the same text get the same message, and two failures      *)
(* whose texts both contain "403" get the identical message whatever else  *)
(* the texts contain; likewise for "404", "401" and "429" when no code of  *)
(* higher priority is in either text.                                      *)
C2_FixedMessagesHideText ==
    Len(ret) = 2 =>
        /\ arg[1] = arg[2] => ret[1] = ret[2]
        /\ \A code \in {"403", "404", "401", "429"} :
              (/\ Contains(arg[1], code) /\ NoHigher(arg[1], code)
               /\ Contains(arg[2], code) /\ NoHigher(arg[2], code))
              => ret[1] = ret[2]

\* two different texts with "403" in them have been categorized
C2_Witness ==
    /\ Len(ret) = 2
    /\ arg = <<"403x", "404403">>
    /\ ret[1] = PermissionDeniedMsg

----------------------------------------------------------------------------
(* Specification SpecFmt: format_analytics_response applied to raw replies *)

KeyValues == {"shoes", "boots"}

\* the metrics of a raw row: none, all four, some
MetricSamples ==
    { [f \in {} |-> 0],
      [clicks |-> 10, impressions |-> 200,
       ctr |-> Ratio(50000, 1, 0), position |-> Float(3140000, 1)],
      [clicks |-> 5, ctr |-> Ratio(123456, 0 - 1, 0 - 1)] }

\* the raw row with the given (optional) keys and the given metrics
RawRow(keys, metrics) ==
    [f \in (IF keys.present THEN {"keys"} ELSE {}) \cup DOMAIN metrics |->
        IF f = "keys" THEN keys.value ELSE metrics[f]]

\* raw rows, and null in the place of a row
RawRows ==
    {RawRow(k, m) :
        k \in {Absent} \cup {Present(ks) : ks \in SeqsUpTo(KeyValues, MaxKeys)},
        m \in MetricSamples} \cup {None}

\* the raw reply with the given (optional) rows, with or without a
\* responseAggregationType
RawResponse(rows, aggregated) ==
    [f \in (IF rows.present THEN {"rows"} ELSE {}) \cup
           (IF aggregated THEN {"responseAggregationType"} ELSE {}) |->
        IF f = "rows" THEN rows.value ELSE "byProperty"]

\* the raw reply with a count of its own added to it
WithCount(raw, n) ==
    [f \in DOMAIN raw \cup {"total_rows"} |-> IF f = "total_rows" THEN n ELSE raw[f]]

\* the count a raw reply may carry: never the number of its rows
StrayCount == MaxRows + 5

\* the raw replies of up to n rows: with `rows` or without, and with nothing
\* else or with a responseAggregationType and a count of their own
RawResponses(n) ==
    {IF more THEN WithCount(RawResponse(rs, TRUE), StrayCount)
             ELSE RawResponse(rs, FALSE) :
        rs \in {Absent} \cup {Present(r) : r \in SeqsUpTo(RawRows, n)},
        more \in BOOLEAN}

InitFmt == DispatchIdle /\ fn = "none" /\ arg \in RawResponses(MaxRows) /\ ret = None

ApplyFormatAnalyticsResponse ==
    /\ fn = "none"
    /\ fn' = "format_analytics_response"
    /\ ret' = format_analytics_response(arg)
    /\ UNCHANGED <<arg, frames, dispVars>>

NextFmt == ApplyFormatAnalyticsResponse

SpecFmt == InitFmt /\ [][NextFmt]_vars

\* the `rows` of the raw reply that was formatted
ArgRows == Get(arg, "rows", <<>>)

(* C9: for every raw analytics response whose `rows` is absent or is the   *)
(* empty sequence, format_analytics_response returns without error a       *)
(* result whose row sequence is empty and whose total_rows is 0.           *)
C9_NoRowsGivesEmpty ==
    (fn = "format_analytics_response" /\ ArgRows = <<>>) =>
        /\ ~ret.raised
        /\ ret.value.rows = <<>>
        /\ ret.value.total_rows = 0

\* a reply without a `rows` key has been formatted
C9_Witness ==
    /\ fn = "format_analytics_response"
    /\ "rows" \notin DOMAIN arg
    /\ ~ret.raised
    /\ ret.value.total_rows = 0

\* the dimension fields of a formatted row
DimensionFieldsOf(formatted_row) == DOMAIN formatted_row \ MetricFields

\* the name of the dimension field of index i (i in 0..9), digit by digit
DimensionName(i) == "dimension_" \o SubSeq("0123456789", i + 1, i + 1)

(* C10: for every raw row with a `keys` sequence of length n the           *)
(* normalized row has exactly the dimension fields dimension_0 ..          *)
(* dimension_(n-1), dimension_i being keys[i] unchanged, and a raw row     *)
(* without `keys` gives a normalized row with no dimension field.          *)
C10_DimensionFields ==
    (fn = "format_analytics_response" /\ ~ret.raised) =>
        \A r \in 1..Len(ArgRows) :
            LET row == ArgRows[r]
                out == ret.value.rows[r]
            IN  IF "keys" \in DOMAIN row
                THEN /\ Cardinality(DimensionFieldsOf(out)) = Len(row["keys"])
                     /\ \A i \in 1..Len(row["keys"]) :
                           /\ DimensionName(i - 1) \in DOMAIN out
                           /\ out[DimensionName(i - 1)] = row["keys"][i]
                ELSE DimensionFieldsOf(out) = {}

\* a row with keys [shoes, boots] and a row without keys have been formatted
C10_Witness ==
    /\ fn = "format_analytics_response"
    /\ ~ret.raised
    /\ Len(ArgRows) = 2
    /\ "keys" \in DOMAIN ArgRows[1]
    /\ ArgRows[1]["keys"] = <<"shoes", "boots">>
    /\ "keys" \notin DOMAIN ArgRows[2]
    /\ ret.value.rows[1]["dimension_0"] = "shoes"
    /\ ret.value.rows[1]["dimension_1"] = "boots"
    /\ "dimension_2" \notin DOMAIN ret.value.rows[1]
    /\ DimensionFieldsOf(ret.value.rows[2]) = {}

(* C11: format_analytics_response emits exactly one output row per input   *)
(* row, in the input order (the i-th output row is the i-th input row      *)
(* formatted; none dropped, merged, duplicated or reordered), and          *)
(* total_rows is the length of the output row sequence whatever count the  *)
(* raw response carries.                                                   *)
C11_RowsInOrder ==
    (fn = "format_analytics_response" /\ ~ret.raised) =>
        /\ Len(ret.value.rows) = Len(ArgRows)
        /\ \A i \in 1..Len(ArgRows) : ret.value.rows[i] = FormatRow(ArgRows[i])
        /\ ret.value.total_rows = Len(ret.value.rows)

\* two different rows of a reply that carries a count of its own have been
\* formatted
C11_Witness ==
    /\ fn = "format_analytics_response"
    /\ ~ret.raised
    /\ "total_rows" \in DOMAIN arg
    /\ arg["total_rows"] # 2
    /\ Len(ArgRows) = 2
    /\ FormatRow(ArgRows[1]) # FormatRow(ArgRows[2])
    /\ ret.value.rows = <<FormatRow(ArgRows[1]), FormatRow(ArgRows[2])>>
    /\ ret.value.total_rows = 2

(* C14: every normalized row carries the four metric fields clicks,        *)
(* impressions, ctr and position; a metric the raw row lacks is emitted as *)
(* 0, and clicks and impressions of the raw row are emitted with exactly   *)
(* the raw value.                                                          *)
C14_MetricsAlwaysPresent ==
    (fn = "format_analytics_response" /\ ~ret.raised) =>
        \A r \in 1..Len(ArgRows) :
            LET row == ArgRows[r]
                out == ret.value.rows[r]
            IN  /\ MetricFields \subseteq DOMAIN out
                /\ \A m \in MetricFields \ DOMAIN row : out[m] = 0
                /\ \A m \in {"clicks", "impressions"} \cap DOMAIN row :
                      out[m] = row[m]

\* a row with clicks and ctr alone and a row with no metric at all have
\* been formatted
C14_Witness ==
    /\ fn = "format_analytics_response"
    /\ ~ret.raised
    /\ Len(ArgRows) = 2
    /\ DOMAIN ArgRows[1] \cap MetricFields = {"clicks", "ctr"}
    /\ DOMAIN ArgRows[2] \cap MetricFields = {}
    /\ ret.value.rows[1]["clicks"] = 5
    /\ ret.value.rows[1]["impressions"] = 0
    /\ ret.value.rows[1]["position"] = 0
    /\ ret.value.rows[2]["clicks"] = 0
    /\ ret.value.rows[2]["ctr"] = 0

----------------------------------------------------------------------------
(* Specification SpecRound: format_analytics_response applied to one raw   *)
(* row whose ctr and position are decimals written with up to 6 places,    *)
(* as the doubles Python reads them to be                                  *)

\* raw ctr: 0 (int), 0.1234, 0.05, 0.00125, 0.00135, 0.12345, 0.00005,
\* 0.00015, 0.02675, 0.01005; 100 times the last six lie half-way between
\* two numbers of 2 decimal places
CtrSamples ==
    {Zero, Ratio(123400, 0 - 1, 0 - 1), Ratio(50000, 1, 0), Ratio(1250, 1, 0),
     Ratio(1350, 1, 1), Ratio(123450, 1, 1), Ratio(50, 1, 1),
     Ratio(150, 0 - 1, 0 - 1), Ratio(26750, 0 - 1, 0 - 1),
     Ratio(10050, 0 - 1, 0 - 1)}

\* raw position: 0 (int), 4.26, 4.24, 3.14, 7.0, and 4.25, 4.35, 4.45, 4.15,
\* 4.05, which lie half-way between two numbers of 1 decimal place
PositionSamples ==
    {Zero, Float(4260000, 0 - 1), Float(4240000, 1), Float(3140000, 1),
     Float(7000000, 0), Float(4250000, 0), Float(4350000, 0 - 1),
     Float(4450000, 1), Float(4150000, 1), Float(4050000, 0 - 1)}

\* the metrics of a raw row with the given (optional) ctr and position
RatioMetrics(c, p) ==
    [f \in (IF c.present THEN {"ctr"} ELSE {}) \cup
           (IF p.present THEN {"position"} ELSE {}) |->
        IF f = "ctr" THEN c.value ELSE p.value]

\* replies of one row
RoundResponses ==
    {RawResponse(Present(<<RawRow(k, RatioMetrics(c, p))>>), FALSE) :
        k \in {Absent, Present(<<"shoes">>)},
        c \in {Absent} \cup {Present(x) : x \in CtrSamples},
        p \in {Absent} \cup {Present(x) : x \in PositionSamples}}

InitRound == DispatchIdle /\ fn = "none" /\ arg \in RoundResponses /\ ret = None

SpecRound == InitRound /\ [][NextFmt]_vars

\* the decimal v / 10^6 rounded to ndigits places, a tie going up
RoundHalfUp(v, ndigits) ==
    LET unit == Pow10(6 - ndigits)
    IN  IF 2 * (v % unit) >= unit THEN ((v \div unit) + 1) * unit
        ELSE (v \div unit) * unit

\* the decimal v / 10^6 rounded to ndigits places, a tie going to the even
\* last digit
RoundHalfEven(v, ndigits) ==
    LET unit == Pow10(6 - ndigits)
        q == v \div unit
    IN  IF 2 * (v % unit) > unit THEN (q + 1) * unit
        ELSE IF 2 * (v % unit) < unit THEN q * unit
        ELSE IF q % 2 = 0 THEN q * unit ELSE (q + 1) * unit

(* C13: for every raw row the normalized ctr is the raw ratio times 100    *)
(* rounded to 2 decimal places and the normalized position is the raw      *)
(* position rounded to 1 decimal place, an input exactly half-way (at the  *)
(* .x5 boundary) being rounded by a standard round-half rule: half up or   *)
(* half to even.                                                           *)
C13_RoundedByRoundHalf ==
    (fn = "format_analytics_response" /\ ~ret.raised) =>
        LET row == ArgRows[1]
            out == ret.value.rows[1]
            raw_ctr == Get(row, "ctr", Zero).val
            raw_position == Get(row, "position", Zero).val
        IN  /\ out["ctr"] \in {RoundHalfUp(raw_ctr * 100, 2),
                               RoundHalfEven(raw_ctr * 100, 2)}
            /\ out["position"] \in {RoundHalfUp(raw_position, 1),
                                    RoundHalfEven(raw_position, 1)}

----------------------------------------------------------------------------
(* Specification SpecRange: get_date_range called on any day of a winter   *)
(* that has a 29th of February, without a day count and with one, which   *)
(* may be negative                                                         *)

\* datetime.now() is a day from 2023-12-25 to 2024-03-18
FirstToday == 19716
LastToday == 19800

\* the default of the parameter `days`
DefaultDays == 28

InitRange ==
    /\ DispatchIdle
    /\ fn = "none"
    /\ arg \in [days : {Absent} \cup {Present(d) : d \in (0 - MaxDays)..MaxDays},
                today : FirstToday..LastToday]
    /\ ret = None

ApplyGetDateRange ==
    /\ fn = "none"
    /\ fn' = "get_date_range"
    /\ ret' = get_date_range(IF arg.days.present THEN arg.days.value
                             ELSE DefaultDays, arg.today)
    /\ UNCHANGED <<arg, frames, dispVars>>

NextRange == ApplyGetDateRange

SpecRange == InitRange /\ [][NextRange]_vars

\* the text is ten characters, YYYY-MM-DD, all digits but the two dashes
IsIsoDate(s) ==
    /\ Len(s) = 10
    /\ \A i \in {1, 2, 3, 4, 6, 7, 9, 10} : IsDigit(At(s, i))
    /\ At(s, 5) = "-" /\ At(s, 8) = "-"

\* the leap years before year y
LeapsBefore(y) == (y - 1) \div 4 - (y - 1) \div 100 + (y - 1) \div 400

RECURSIVE DaysBeforeMonth(_, _)
\* the days of year y before its month m
DaysBeforeMonth(y, m) ==
    IF m = 1 THEN 0 ELSE DaysBeforeMonth(y, m - 1) + DaysInMonth(y, m - 1)

\* the number, counted from 1970-01-01, of the day written YYYY-MM-DD in s
DayNumber(s) ==
    LET y == ToInt(SubSeq(s, 1, 4))
        m == ToInt(SubSeq(s, 6, 7))
        d == ToInt(SubSeq(s, 9, 10))
    IN  365 * (y - 1970) + LeapsBefore(y) - LeapsBefore(1970)
            + DaysBeforeMonth(y, m) + d - 1

\* the text is a date of the calendar written YYYY-MM-DD
IsCalendarDate(s) ==
    /\ IsIsoDate(s)
    /\ ToInt(SubSeq(s, 6, 7)) \in 1..12
    /\ ToInt(SubSeq(s, 9, 10)) \in
          1..DaysInMonth(ToInt(SubSeq(s, 1, 4)), ToInt(SubSeq(s, 6, 7)))

(* C15: for every day count d and every current date, get_date_range(d)    *)
(* returns (start, end), both calendar dates written YYYY-MM-DD, with      *)
(* end = now - 3 days and start = end - d days; d is 28 when no day count  *)
(* is given, and for d = 7 start = now - 10 days.                          *)
C15_DateRangeIsTrailing ==
    fn = "get_date_range" =>
        LET d == IF arg.days.present THEN arg.days.value ELSE 28
        IN  /\ IsCalendarDate(ret[1]) /\ IsCalendarDate(ret[2])
            /\ DayNumber(ret[2]) = arg.today - 3
            /\ DayNumber(ret[1]) = DayNumber(ret[2]) - d
            /\ d = 7 => DayNumber(ret[1]) = arg.today - 10

\* get_date_range(7) has been called on 2024-03-04: the range is from the
\* 23rd of February to the 1st of March, over the 29th of February
C15_Witness ==
    /\ fn = "get_date_range"
    /\ arg.days = Present(7)
    /\ arg.today = 19786
    /\ ret = <<"2024-02-23", "2024-03-01">>

----------------------------------------------------------------------------
(* Specification SpecDate: validate_date applied to date strings, well     *)
(* and badly written                                                       *)

YearTexts == {"2024", "2023", "24"}
SeparatorTexts == {"-", "/"}
MonthTexts == {"01", "1", "02", "2", "12", "13", "00"}
DayTexts == {"01", "1", "05", " 5", "29", "30", "31", "40"}
TrailingTexts == {"", "x", " "}

\* a year, a month and a day with one separator twice, and what follows
DateTexts ==
    {y \o p \o m \o p \o d \o t :
        y \in YearTexts, p \in SeparatorTexts, m \in MonthTexts,
        d \in DayTexts, t \in TrailingTexts}

InitDate == DispatchIdle /\ fn = "none" /\ arg \in DateTexts /\ ret = None

\* validate_date(arg): True, or False after the ValueError of strptime
ApplyValidateDate ==
    /\ fn = "none"
    /\ fn' = "validate_date"
    /\ ret' = validate_date(arg)
    /\ UNCHANGED <<arg, frames, dispVars>>

NextDate == ApplyValidateDate

SpecDate == InitDate /\ [][NextDate]_vars

(* C17: validate_date returns True exactly for the strings that are a real *)
(* calendar date written YYYY-MM-DD (four digits, dash, two digits, dash,  *)
(* two digits) and False for every other string.                           *)
C17_ExactlyCalendarDates ==
    fn = "validate_date" => (ret <=> IsCalendarDate(arg))

----------------------------------------------------------------------------
(* The handlers of tools.py and resources.py *)

Tools == {"query_search_analytics", "list_sitemaps", "get_sitemap",
          "submit_sitemap", "delete_sitemap", "list_sites", "get_site",
          "add_site", "delete_site", "inspect_url"}

\* the resources that call the remote service (all but get_config)
RemoteResources == {"get_sites_list", "get_analytics_summary",
                    "get_site_sitemaps", "get_top_queries", "get_top_pages"}

\* the resources whose path holds an encoded site URL
SiteResources == RemoteResources \ {"get_sites_list"}

\* the resources that query the analytics of the last days
DateRangeResources == {"get_analytics_summary", "get_top_queries", "get_top_pages"}

RemoteOps == Tools \cup RemoteResources

\* json.dumps(obj, indent=2): the JSON text of obj
Json(obj) == [json |-> obj]

\* what a handler gives its caller
Raised(message) == [kind |-> "raised", message |-> message]
Returned(value) == [kind |-> "returned", value |-> value]

\* str(token)
Str(tok) == IF tok.kind = "None" THEN "None" ELSE tok.str

\* Python truth value of the optional list `dimensions`
Truthy(dimensions) == dimensions.present /\ dimensions.value # <<>>

\* auth.get_gsc_service, `built` being the outcome of the calls of
\* Credentials and build: the service made with the token
get_gsc_service(token_str, built) ==
    IF token_str = ""
    THEN Raise("Access token is required for Google Search Console API")
    ELSE IF built.raised THEN built
    ELSE Return([credentials |-> [token |-> token_str]])

MaxRowLimit == 25000

\* no limit on the rows asked for
ClampRowLimit_None(row_limit) == row_limit

\* min(row_limit, 25000)
ClampRowLimit(row_limit) ==
    IF row_limit < MaxRowLimit THEN row_limit ELSE MaxRowLimit

\* request_body of query_search_analytics
QueryBody(a) ==
    [f \in {"startDate", "endDate", "rowLimit", "startRow"} \cup
           (IF Truthy(a.dimensions) THEN {"dimensions"} ELSE {}) |->
        CASE f = "startDate" -> a.start_date
          [] f = "endDate" -> a.end_date
          [] f = "rowLimit" -> ClampRowLimit(a.row_limit)
          [] f = "startRow" -> a.start_row
          [] f = "dimensions" -> a.dimensions.value]

\* every resource asks for the last 28 days
DateRangeDays_Month(o) == 28

\* the days get_date_range is called with
DateRangeDays(o) == IF o = "get_analytics_summary" THEN 28 ELSE 7

\* the remote call of handler o: the API method and its arguments
RequestOf(o, a, url, dr) ==
    CASE o = "query_search_analytics" ->
            [api |-> "searchanalytics.query", siteUrl |-> a.site_url,
             body |-> QueryBody(a)]
      [] o = "list_sitemaps" -> [api |-> "sitemaps.list", siteUrl |-> a.site_url]
      [] o = "get_sitemap" ->
            [api |-> "sitemaps.get", siteUrl |-> a.site_url, feedpath |-> a.feedpath]
      [] o = "submit_sitemap" ->
            [api |-> "sitemaps.submit", siteUrl |-> a.site_url, feedpath |-> a.feedpath]
      [] o = "delete_sitemap" ->
            [api |-> "sitemaps.delete", siteUrl |-> a.site_url, feedpath |-> a.feedpath]
      [] o = "list_sites" -> [api |-> "sites.list"]
      [] o = "get_site" -> [api |-> "sites.get", siteUrl |-> a.site_url]
      [] o = "add_site" -> [api |-> "sites.add", siteUrl |-> a.site_url]
      [] o = "delete_site" -> [api |-> "sites.delete", siteUrl |-> a.site_url]
      [] o = "inspect_url" ->
            [api |-> "urlInspection.index.inspect",
             body |-> [inspectionUrl |-> a.inspection_url, siteUrl |-> a.site_url,
                       languageCode |-> a.language_code]]
      [] o = "get_sites_list" -> [api |-> "sites.list"]
      [] o = "get_analytics_summary" ->
            [api |-> "searchanalytics.query", siteUrl |-> url,
             body |-> [startDate |-> dr[1], endDate |-> dr[2], rowLimit |-> 1]]
      [] o = "get_site_sitemaps" -> [api |-> "sitemaps.list", siteUrl |-> url]
      [] o = "get_top_queries" ->
            [api |-> "searchanalytics.query", siteUrl |-> url,
             body |-> [startDate |-> dr[1], endDate |-> dr[2],
                       dimensions |-> <<"query">>, rowLimit |-> 10]]
      [] o = "get_top_pages" ->
            [api |-> "searchanalytics.query", siteUrl |-> url,
             body |-> [startDate |-> dr[1], endDate |-> dr[2],
                       dimensions |-> <<"page">>, rowLimit |-> 10]]

\* f'{start_date} to {end_date}'
Period(dr) == dr[1] \o " to " \o dr[2]

\* the summary is made of the last row of the reply
Summary_LastRow(url, dr, rsp) ==
    LET rows == Get(rsp, "rows", <<>>)
        last == rows[Len(rows)]
    IN  IF Len(rows) > 0 /\ rows[1] = None
        THEN Raise("'NoneType' object has no attribute 'get'")
        ELSE Return(Json(
               [site_url |-> url,
                period |-> Period(dr),
                total_clicks |-> IF Len(rows) > 0 THEN Get(last, "clicks", 0) ELSE 0,
                total_impressions |->
                    IF Len(rows) > 0 THEN Get(last, "impressions", 0) ELSE 0,
                average_ctr |->
                    IF Len(rows) > 0
                    THEN py_round(Times100(Get(last, "ctr", Zero)), 2) ELSE 0,
                average_position |->
                    IF Len(rows) > 0
                    THEN py_round(Get(last, "position", Zero), 1) ELSE 0]))

\* the summary of get_analytics_summary
Summary(url, dr, rsp) ==
    LET rows == Get(rsp, "rows", <<>>)
    IN  IF Len(rows) > 0 /\ rows[1] = None
        THEN Raise("'NoneType' object has no attribute 'get'")
        ELSE Return(Json(
               [site_url |-> url,
                period |-> Period(dr),
                total_clicks |->
                    IF Len(rows) > 0 THEN Get(rows[1], "clicks", 0) ELSE 0,
                total_impressions |->
                    IF Len(rows) > 0 THEN Get(rows[1], "impressions", 0) ELSE 0,
                average_ctr |->
                    IF Len(rows) > 0
                    THEN py_round(Times100(Get(rows[1], "ctr", Zero)), 2) ELSE 0,
                average_position |->
                    IF Len(rows) > 0
                    THEN py_round(Get(rows[1], "position", Zero), 1) ELSE 0]))

\* the statements of handler o after its remote call returned rsp: the
\* value returned, or the exception raised on the way
ResultOf(o, a, url, dr, rsp) ==
    CASE o = "query_search_analytics" -> format_analytics_response(rsp)
      [] o = "list_sitemaps" ->
            Return([sitemaps |-> Get(rsp, "sitemap", <<>>),
                    total |-> Len(Get(rsp, "sitemap", <<>>))])
      [] o \in {"get_sitemap", "get_site", "inspect_url"} -> Return(rsp)
      [] o = "submit_sitemap" ->
            Return([status |-> "success",
                    message |-> "Sitemap " \o a.feedpath \o " submitted successfully"])
      [] o = "delete_sitemap" ->
            Return([status |-> "success",
                    message |-> "Sitemap " \o a.feedpath \o " deleted successfully"])
      [] o = "list_sites" ->
            Return([sites |-> Get(rsp, "siteEntry", <<>>),
                    total |-> Len(Get(rsp, "siteEntry", <<>>))])
      [] o = "add_site" ->
            Return([status |-> "success",
                    message |-> "Site " \o a.site_url \o " added successfully"])
      [] o = "delete_site" ->
            Return([status |-> "success",
                    message |-> "Site " \o a.site_url \o " deleted successfully"])
      [] o = "get_sites_list" ->
            Return(Json([sites |-> Get(rsp, "siteEntry", <<>>),
                         total |-> Len(Get(rsp, "siteEntry", <<>>))]))
      [] o = "get_analytics_summary" -> Summary(url, dr, rsp)
      [] o = "get_site_sitemaps" ->
            Return(Json([site_url |-> url,
                         sitemaps |-> Get(rsp, "sitemap", <<>>),
                         total |-> Len(Get(rsp, "sitemap", <<>>))]))
      [] o = "get_top_queries" ->
            LET formatted == format_analytics_response(rsp)
            IN  IF formatted.raised THEN formatted
                ELSE Return(Json([site_url |-> url, period |-> Period(dr),
                                  top_queries |-> formatted.value.rows]))
      [] o = "get_top_pages" ->
            LET formatted == format_analytics_response(rsp)
            IN  IF formatted.raised THEN formatted
                ELSE Return(Json([site_url |-> url, period |-> Period(dr),
                                  top_pages |-> formatted.value.rows]))

\* the except clause swallows the exception and a default result is returned
ExceptClause_Default(o, error_str) ==
    Returned(IF o \in Tools THEN [rows |-> <<>>, total_rows |-> 0]
             ELSE Json([sites |-> <<>>, total |-> 0]))

\* the except clause of a tool returns a confirmation
ExceptClause_Confirm(o, error_str) ==
    IF o \in Tools THEN Returned([status |-> "success", message |-> error_str])
    ELSE Returned(Json([error |-> format_error_message(error_str)]))

\* the except clause of a resource raises, as that of a tool does
ExceptClause_Reraise(o, error_str) == Raised(format_error_message(error_str))

\* the except clause of handler o, e being the exception caught and
\* error_str its text: a tool raises Exception(format_error_message(e)), a
\* resource returns the JSON text of {'error': format_error_message(e)}
ExceptClause(o, error_str) ==
    IF o \in Tools THEN Raised(format_error_message(error_str))
    ELSE Returned(Json([error |-> format_error_message(error_str)]))

\* after an exception in the remote call the call is made again
Goto_Retry(step, raised) ==
    IF raised THEN (IF step = "call" THEN "call" ELSE "done")
    ELSE CASE step = "validate" -> "token"
           [] step = "token" -> "service"
           [] step = "service" -> "call"
           [] step = "call" -> "format"
           [] step = "format" -> "done"

\* the service is built before the token is asked for
Goto_ServiceFirst(step, raised) ==
    IF raised THEN "done"
    ELSE CASE step = "validate" -> "service"
           [] step = "service" -> "token"
           [] step = "token" -> "call"
           [] step = "call" -> "format"
           [] step = "format" -> "done"

\* the except clause never comes to its end
Goto_Hang(step, raised) ==
    IF raised THEN "except"
    ELSE CASE step = "validate" -> "token"
           [] step = "token" -> "service"
           [] step = "service" -> "call"
           [] step = "call" -> "format"
           [] step = "format" -> "done"

\* the statements of the try block run in order, and an exception in any of
\* them leaves the block for the except clause, which ends the handler
Goto(step, raised) ==
    IF raised THEN "done"
    ELSE CASE step = "validate" -> "token"
           [] step = "token" -> "service"
           [] step = "service" -> "call"
           [] step = "call" -> "format"
           [] step = "format" -> "done"

----------------------------------------------------------------------------
(* The callers' arguments and the answers of the collaborators *)

SiteUrls == {"https://a.com/", "sc-domain:b.org"}
\* the site URLs the caller of a resource may have in mind: the two above,
\* and URLs with a percent sign, an escape, a space and a plus in them
CallerSiteUrls ==
    SiteUrls \cup {"https://a.com/50%/", "https://a.com/a%2Fb/", "https://a.com/a b+c~d/"}

\* the path argument of a resource: a site URL encoded as the examples
\* encode it, or one given as it is
EncodedSiteUrls ==
    {encode_site_url(u) : u \in CallerSiteUrls} \cup {"https://a.com/"}
\* dates well written, and badly: a month and a day out of range, slashes,
\* and a text with the digits 403 in it
DateInputs ==
    {"2024-01-01", "2024-01-31", "2024-13-40", "2024/01/01", "2024-01-403"}
DimensionInputs ==
    {Absent, Present(<<>>), Present(<<"query">>), Present(<<"query", "page">>)}
RowLimitInputs ==
    {Absent, Present(0 - 1), Present(1), Present(25000), Present(25001),
     Present(100000)}
StartRowInputs == {Absent, Present(0), Present(5)}
FeedPaths == {"https://a.com/sitemap.xml"}
InspectionUrls == {"https://a.com/page"}
LanguageInputs == {Absent, Present("es-ES")}

\* the value of an optional argument, or the default of the signature
OrDefault(given, default) == IF given.present THEN given.value ELSE default

\* the names among ns of the arguments omitted
Omitted(ns, given) == {n \in ns : ~given[n].present}

\* the parameters of handler o, for every call its caller may make
ArgsOf(o) ==
    CASE o = "query_search_analytics" ->
            {[NoArgs EXCEPT !.site_url = s, !.start_date = sd, !.end_date = ed,
                            !.dimensions = d,
                            !.row_limit = OrDefault(rl, 1000),
                            !.start_row = OrDefault(sr, 0),
                            !.omitted = Omitted({"row_limit", "start_row", "dimensions"},
                                                [row_limit |-> rl, start_row |-> sr,
                                                 dimensions |-> d])] :
                s \in SiteUrls, sd \in DateInputs, ed \in DateInputs,
                d \in DimensionInputs, rl \in RowLimitInputs, sr \in StartRowInputs}
      [] o \in {"list_sitemaps", "get_site", "add_site", "delete_site"} ->
            {[NoArgs EXCEPT !.site_url = s] : s \in SiteUrls}
      [] o \in {"get_sitemap", "submit_sitemap", "delete_sitemap"} ->
            {[NoArgs EXCEPT !.site_url = s, !.feedpath = f] :
                s \in SiteUrls, f \in FeedPaths}
      [] o \in {"list_sites", "get_sites_list"} -> {NoArgs}
      [] o = "inspect_url" ->
            {[NoArgs EXCEPT !.site_url = s, !.inspection_url = u,
                            !.language_code = OrDefault(l, "en-US"),
                            !.omitted = Omitted({"language_code"},
                                                [language_code |-> l])] :
                s \in SiteUrls, u \in InspectionUrls, l \in LanguageInputs}
      [] o \in SiteResources -> {[NoArgs EXCEPT !.site_url = s] : s \in EncodedSiteUrls}

\* str(e) of the exceptions the collaborators raise
Error401 == "<HttpError 401 'Request had invalid authentication credentials.'>"
FailureTexts ==
    {"<HttpError 403 'User does not have sufficient permission for site'>",
     "<HttpError 404 'Requested entity was not found.'>",
     Error401,
     "<HttpError 429 'Quota exceeded'>",
     "<HttpError 400 'Invalid value at start_date'>",
     "<HttpError 404 'https://a.com/403.html is not a sitemap'>",
     "The read operation timed out"}

\* get_access_token(): no token, a token (with the text str gives for it),
\* or an exception
TokenOutcomes ==
    {Return(None), Return([kind |-> "AccessToken", str |-> "ya29.A0"])}
        \cup {Raise(t) : t \in FailureTexts}

\* Credentials(token=...) and build('searchconsole', 'v1', ...)
BuildOutcomes == {Return("service")} \cup {Raise(t) : t \in FailureTexts}

EmptyDict == [f \in {} |-> 0]

SiteEntries ==
    <<[siteUrl |-> "https://a.com/", permissionLevel |-> "siteOwner"],
      [siteUrl |-> "sc-domain:b.org", permissionLevel |-> "siteRestrictedUser"]>>
SitemapEntries ==
    <<[path |-> "https://a.com/sitemap.xml", errors |-> "0", warnings |-> "2"],
      [path |-> "https://a.com/news.xml", errors |-> "1", warnings |-> "0"]>>

\* replies to searchanalytics.query: no `rows`, no row, rows with and without
\* keys and metrics, null in the place of a row
AnalyticsReplies ==
    LET shoes == RawRow(Present(<<"shoes">>),
                        [clicks |-> 10, impressions |-> 200,
                         ctr |-> Ratio(50000, 1, 0), position |-> Float(3140000, 1)])
        boots == RawRow(Present(<<"boots">>),
                        [clicks |-> 5, impressions |-> 100,
                         ctr |-> Ratio(50000, 1, 0), position |-> Float(7000000, 0)])
        bare == RawRow(Absent, [clicks |-> 7, ctr |-> Ratio(123456, 0 - 1, 0 - 1)])
    IN  {RawResponse(Absent, FALSE),
         RawResponse(Present(<<>>), TRUE),
         RawResponse(Present(<<shoes, boots>>), TRUE),
         RawResponse(Present(<<bare>>), FALSE),
         RawResponse(Present(<<shoes, None>>), FALSE),
         RawResponse(Present(<<None>>), FALSE)}

\* what execute() returns for the remote call of handler o
Replies(o) ==
    CASE o \in {"query_search_analytics"} \cup DateRangeResources -> AnalyticsReplies
      [] o \in {"list_sites", "get_sites_list"} ->
            {EmptyDict, [siteEntry |-> SubSeq(SiteEntries, 1, 1)],
             [siteEntry |-> SiteEntries]}
      [] o \in {"list_sitemaps", "get_site_sitemaps"} ->
            {EmptyDict, [sitemap |-> SubSeq(SitemapEntries, 1, 1)],
             [sitemap |-> SitemapEntries]}
      [] o = "get_site" -> {SiteEntries[1], SiteEntries[2]}
      [] o = "get_sitemap" -> {SitemapEntries[1], SitemapEntries[2]}
      [] o = "inspect_url" ->
            {[inspectionResult |-> [verdict |-> "PASS"]],
             [inspectionResult |-> [verdict |-> "FAIL"]]}
      [] o \in {"submit_sitemap", "delete_sitemap", "add_site", "delete_site"} ->
            {EmptyDict}

\* the handlers that keep what execute() returns in `response`
KeepsResponse(o) ==
    o \notin {"submit_sitemap", "delete_sitemap", "add_site", "delete_site"}

\* the outcome of execute(): the remote service refuses a request whose
\* bearer token is the text "None", and answers any other as it pleases
RemoteOutcomes(o, svc) ==
    IF svc.credentials.token = "None" THEN {Raise(Error401)}
    ELSE {Return(r) : r \in Replies(o)} \cup {Raise(t) : t \in FailureTexts}

\* datetime.now(), as the number of the day: 2024-03-04, 2024-01-02
NowDays == {19786, 19724}

----------------------------------------------------------------------------
(* Specification Spec: the handlers, one invocation after another *)

Init == DispatchIdle /\ PureIdle

\* the content of gsc://config
Config ==
    [server |-> "Google Search Console MCP", version |-> "0.1.0",
     api_version |-> "v1", authentication |-> "Google OAuth 2.0",
     scopes |-> <<"openid", "https://www.googleapis.com/auth/userinfo.email",
                  "https://www.googleapis.com/auth/webmasters">>]

\* resources.get_config, from call to return
GetConfig ==
    /\ pc = "idle"
    /\ pc' = "done"
    /\ op' = "get_config"
    /\ args' = NoArgs
    /\ now' = 0
    /\ token' = None /\ access_token' = "" /\ service' = None
    /\ decoded_url' = "" /\ date_range' = <<"", "">> /\ sent' = <<>>
    /\ response' = None /\ failure' = "" /\ steps' = <<>>
    /\ outcome' = Returned(Json(Config))
    /\ UNCHANGED pureVars

\* a caller calls a handler that uses the remote service
Invoke ==
    /\ pc = "idle"
    /\ \E o \in RemoteOps : \E a \in ArgsOf(o) :
          /\ op' = o
          /\ args' = a
    /\ pc' = "validate"
    /\ now' = 0
    /\ token' = None /\ access_token' = "" /\ service' = None
    /\ decoded_url' = "" /\ date_range' = <<"", "">> /\ sent' = <<>>
    /\ response' = None /\ outcome' = NoOutcome /\ failure' = "" /\ steps' = <<>>
    /\ UNCHANGED pureVars

\* a statement of the try block has run with outcome res: it is logged, and
\* an exception is handled by the except clause
Step(name, res) ==
    /\ steps' = Append(steps, [name |-> name, raised |-> res.raised])
    /\ pc' = Goto(name, res.raised)
    /\ failure' = IF res.raised THEN res.error ELSE failure
    /\ outcome' = IF res.raised THEN ExceptClause(op, res.error) ELSE outcome

\* the statements before get_access_token(): the validation of the dates
\* (query_search_analytics), the decoding of the site URL (resources)
Validate ==
    /\ pc = "validate"
    /\ LET res == IF /\ op = "query_search_analytics"
                     /\ \/ ~validate_date(args.start_date)
                        \/ ~validate_date(args.end_date)
                  THEN Raise("Dates must be in YYYY-MM-DD format")
                  ELSE Return(IF op \in SiteResources
                              THEN decode_site_url(args.site_url)
                              ELSE decoded_url)
       IN  /\ Step("validate", res)
           /\ decoded_url' = IF res.raised THEN decoded_url ELSE res.value
    /\ UNCHANGED <<op, args, now, token, access_token, service, date_range,
                   sent, response, pureVars>>

\* token = get_access_token(); access_token = str(token)
AcquireToken ==
    /\ pc = "token"
    /\ \E res \in TokenOutcomes :
          /\ Step("token", res)
          /\ token' = IF res.raised THEN token ELSE res.value
          /\ access_token' = IF res.raised THEN access_token ELSE Str(res.value)
    /\ UNCHANGED <<op, args, now, service, decoded_url, date_range, sent,
                   response, pureVars>>

\* service = get_gsc_service(access_token)
BuildService ==
    /\ pc = "service"
    /\ \E built \in BuildOutcomes :
          LET res == get_gsc_service(access_token, built)
          IN  /\ Step("service", res)
              /\ service' = IF res.raised THEN service ELSE res.value
    /\ UNCHANGED <<op, args, now, token, access_token, decoded_url, date_range,
                   sent, response, pureVars>>

\* the request is built (with get_date_range in three resources) and
\* ....execute() is called: the remote call is issued and answered
RemoteCall ==
    /\ pc = "call"
    /\ \E today \in (IF op \in DateRangeResources THEN NowDays ELSE {now}) :
          LET dr == IF op \in DateRangeResources
                    THEN get_date_range(DateRangeDays(op), today)
                    ELSE date_range
          IN  /\ now' = today
              /\ date_range' = dr
              /\ sent' = Append(sent, RequestOf(op, args, decoded_url, dr))
              /\ \E res \in RemoteOutcomes(op, service) :
                    /\ Step("call", res)
                    /\ response' = IF ~res.raised /\ KeepsResponse(op)
                                   THEN res.value ELSE response
    /\ UNCHANGED <<op, args, token, access_token, service, decoded_url, pureVars>>

\* the statements after the remote call, up to the return
Finish ==
    /\ pc = "format"
    /\ LET res == ResultOf(op, args, decoded_url, date_range, response)
       IN  /\ steps' = Append(steps, [name |-> "format", raised |-> res.raised])
           /\ pc' = Goto("format", res.raised)
           /\ failure' = IF res.raised THEN res.error ELSE failure
           /\ outcome' = IF res.raised THEN ExceptClause(op, res.error)
                         ELSE Returned(res.value)
    /\ UNCHANGED <<op, args, now, token, access_token, service, decoded_url,
                   date_range, sent, response, pureVars>>

\* the caller has the outcome and the handler's frame is gone; the server
\* waits for the next call
Complete ==
    /\ pc = "done"
    /\ pc' = "idle"
    /\ op' = "none"
    /\ args' = NoArgs
    /\ now' = 0
    /\ token' = None /\ access_token' = "" /\ service' = None
    /\ decoded_url' = "" /\ date_range' = <<"", "">> /\ sent' = <<>>
    /\ response' = None /\ outcome' = NoOutcome /\ failure' = "" /\ steps' = <<>>
    /\ UNCHANGED pureVars

Next ==
    \/ GetConfig
    \/ Invoke
    \/ Validate
    \/ AcquireToken
    \/ BuildService
    \/ RemoteCall
    \/ Finish
    \/ Complete

Spec == Init /\ [][Next]_vars

----------------------------------------------------------------------------
(* Properties of the handlers *)

\* the step called name has run (to its end or to an exception)
Ran(name) == \E i \in 1..Len(steps) : steps[i].name = name

\* the step called name has run and raised an exception
RaisedAt(name) == \E i \in 1..Len(steps) : steps[i].name = name /\ steps[i].raised

\* some step of the invocation has raised an exception
Failed == \E i \in 1..Len(steps) : steps[i].raised

\* the invocation has returned a result after running every step
Succeeded == pc = "done" /\ ~Failed /\ outcome.kind = "returned"

(* C3: in every tool, a failure raised at any step of the invocation       *)
(* (validation, token acquisition, service construction, remote call,      *)
(* normalization) ends the invocation at that step by raising one failure  *)
(* whose message is format_error_message of the original failure; no       *)
(* result is returned after a failure.                                     *)
C3_ToolFailureIsRaised ==
    (op \in Tools /\ Failed) =>
        /\ pc = "done"
        /\ \A i \in 1..Len(steps) : steps[i].raised <=> i = Len(steps)
        /\ outcome = Raised(format_error_message(failure))

\* delete_site has failed in its remote call with a 403
C3_Witness ==
    /\ op = "delete_site"
    /\ pc = "done"
    /\ RaisedAt("call")
    /\ Contains(failure, "403")
    /\ outcome = Raised(PermissionDeniedMsg)

(* C4: a resource that contacts the remote service never raises: on a      *)
(* failure at any step it returns the JSON object with the one key "error" *)
(* whose value is format_error_message of the failure, and on success a    *)
(* JSON object without an "error" key.                                     *)
C4_ResourceNeverRaises ==
    op \in RemoteResources =>
        /\ outcome.kind # "raised"
        /\ Failed =>
              /\ pc = "done"
              /\ outcome.kind = "returned"
              /\ DOMAIN outcome.value.json = {"error"}
              /\ outcome.value.json["error"] = format_error_message(failure)
        /\ (pc = "done" /\ ~Failed) =>
              /\ outcome.kind = "returned"
              /\ "error" \notin DOMAIN outcome.value.json

\* get_top_queries has failed while formatting the reply
C4_Witness ==
    /\ op = "get_top_queries"
    /\ pc = "done"
    /\ RaisedAt("format")
    /\ outcome = Returned(Json([error |-> "An error occurred: " \o failure]))

(* C5: in query_search_analytics, when start_date or end_date is not       *)
(* accepted as a date, the invocation ends in failure without acquiring a  *)
(* token, without constructing a service and without issuing a remote      *)
(* call; a remote call is issued only when both dates were accepted.       *)
C5_InvalidDateNoRemoteCall ==
    (op = "query_search_analytics" /\ Ran("validate")) =>
        /\ (~StrptimeAccepts(args.start_date) \/ ~StrptimeAccepts(args.end_date)) =>
              /\ pc = "done"
              /\ outcome.kind = "raised"
              /\ ~Ran("token") /\ ~Ran("service") /\ ~Ran("call")
              /\ token = None /\ service = None
              /\ sent = <<>>
        /\ sent # <<>> =>
              StrptimeAccepts(args.start_date) /\ StrptimeAccepts(args.end_date)

\* query_search_analytics has been refused a start date whose month and day
\* are out of range
C5_Witness ==
    /\ op = "query_search_analytics"
    /\ pc = "done"
    /\ args.start_date = "2024-13-40"
    /\ args.end_date = "2024-01-31"
    /\ RaisedAt("validate")
    /\ outcome.kind = "raised"
    /\ sent = <<>>

(* C6: an invocation issues at most one remote call over its lifetime: a   *)
(* successful invocation of a remote-backed operation issued exactly one,  *)
(* and a remote call that fails ends the invocation.                       *)
C6_AtMostOneRemoteCall ==
    /\ Len(sent) <= 1
    /\ (Succeeded /\ op \in RemoteOps) => Len(sent) = 1
    /\ RaisedAt("call") => (pc = "done" /\ Len(sent) = 1)
    /\ op = "get_config" => sent = <<>>

\* get_analytics_summary has ended after its one remote call failed
C6_Witness ==
    /\ op = "get_analytics_summary"
    /\ pc = "done"
    /\ RaisedAt("call")
    /\ Len(sent) = 1

(* C7: the request body query_search_analytics sends has rowLimit =        *)
(* min(row_limit, 25000), never above 25000 and equal to row_limit when    *)
(* row_limit <= 25000, and startRow = start_row unchanged (0 when the      *)
(* caller omits it).                                                       *)
C7_RowLimitClamped ==
    (op = "query_search_analytics" /\ sent # <<>>) =>
        LET body == sent[1].body
        IN  /\ body.rowLimit <= 25000
            /\ args.row_limit <= 25000 => body.rowLimit = args.row_limit
            /\ args.row_limit > 25000 => body.rowLimit = 25000
            /\ body.startRow = args.start_row
            /\ "start_row" \in args.omitted => body.startRow = 0

\* 100000 rows were asked for and 25000 requested, from row 5
C7_Witness ==
    /\ op = "query_search_analytics"
    /\ args.row_limit = 100000
    /\ args.start_row = 5
    /\ Len(sent) = 1
    /\ sent[1].body.rowLimit = 25000
    /\ sent[1].body.startRow = 5

(* C8: when get_access_token() gives no token, every operation that needs  *)
(* remote access fails and no remote call is issued in that invocation.    *)
C8_NoTokenNoRemoteCall ==
    (op \in RemoteOps /\ Ran("token") /\ ~RaisedAt("token") /\ token = None) =>
        /\ sent = <<>>
        /\ ~Succeeded

\* the operations that return an AnalyticsResult
AnalyticsOps == {"query_search_analytics", "get_top_queries", "get_top_pages"}

\* the dimensions asked for in the request that was sent
RequestedDimensions == Get(sent[1].body, "dimensions", <<>>)

\* the normalized rows in the result of a successful analytics operation
ResultRows ==
    CASE op = "query_search_analytics" -> outcome.value.rows
      [] op = "get_top_queries" -> outcome.value.json.top_queries
      [] op = "get_top_pages" -> outcome.value.json.top_pages

(* C12: in every result returned by query_search_analytics,                *)
(* get_top_queries or get_top_pages, each row has as many dimension_i      *)
(* fields as dimensions were requested in the query sent, whatever the     *)
(* remote service replied.                                                 *)
C12_DimensionCountIsRequested ==
    (op \in AnalyticsOps /\ Succeeded) =>
        \A i \in 1..Len(ResultRows) :
            Cardinality(DimensionFieldsOf(ResultRows[i])) = Len(RequestedDimensions)

(* C16: every date range sent satisfies start <= end: in every analytics   *)
(* request issued to the remote service, from get_date_range or from the   *)
(* dates the caller of query_search_analytics gave, startDate is not after *)
(* endDate.                                                                *)
C16_StartNotAfterEnd ==
    \A i \in 1..Len(sent) :
        sent[i].api = "searchanalytics.query" =>
            DayNumber(sent[i].body.startDate) <= DayNumber(sent[i].body.endDate)

(* C18: percent-decoding inverts the caller's encoding: when the path      *)
(* argument of a site-scoped resource is encode_site_url(u) for a site URL *)
(* u, the resource decodes it to u itself (decoded once, not twice), and   *)
(* that decoded value is the siteUrl of its remote call and the site_url   *)
(* field of its result.                                                    *)
C18_DecodeInvertsEncode ==
    (op \in SiteResources /\ Ran("validate")) =>
        /\ \A u \in CallerSiteUrls :
              args.site_url = encode_site_url(u) => decoded_url = u
        /\ \A i \in 1..Len(sent) : sent[i].siteUrl = decoded_url
        /\ Succeeded => outcome.value.json.site_url = decoded_url

\* get_site_sitemaps has returned for a site URL that has an escape in it
C18_Witness ==
    /\ op = "get_site_sitemaps"
    /\ Succeeded
    /\ args.site_url = "https%3A%2F%2Fa.com%2Fa%252Fb%2F"
    /\ decoded_url = "https://a.com/a%2Fb/"
    /\ Len(sent) = 1
    /\ sent[1].siteUrl = "https://a.com/a%2Fb/"
    /\ outcome.value.json.site_url = "https://a.com/a%2Fb/"

(* C20: get_top_queries sends one analytics query with dimensions          *)
(* ["query"], rowLimit 10 and the dates of get_date_range(7) (end = now -  *)
(* 3 days, start = now - 10 days) for the decoded site URL, and returns    *)
(* the rows of the reply normalized in their order under top_queries, with *)
(* the decoded site_url and the period "<start> to <end>" of the dates     *)
(* sent; the reply of the rows shoes (ctr 0.05, position 3.14) and boots   *)
(* (ctr 0.05, position 7.0) gives dimension_0 shoes then boots, ctr 5.0    *)
(* for both, position 3.1 and 7.0.                                         *)
C20_TopQueries ==
    op = "get_top_queries" =>
        /\ sent # <<>> =>
              /\ Len(sent) = 1
              /\ sent[1].api = "searchanalytics.query"
              /\ sent[1].siteUrl = decoded_url
              /\ DOMAIN sent[1].body = {"startDate", "endDate", "dimensions", "rowLimit"}
              /\ sent[1].body.dimensions = <<"query">>
              /\ sent[1].body.rowLimit = 10
              /\ IsCalendarDate(sent[1].body.startDate)
              /\ IsCalendarDate(sent[1].body.endDate)
              /\ DayNumber(sent[1].body.endDate) = now - 3
              /\ DayNumber(sent[1].body.startDate) = now - 10
        /\ Succeeded =>
              LET result == outcome.value.json
                  rows == Get(response, "rows", <<>>)
              IN  /\ DOMAIN result = {"site_url", "period", "top_queries"}
                  /\ result.site_url = decoded_url
                  /\ result.period =
                        sent[1].body.startDate \o " to " \o sent[1].body.endDate
                  /\ Len(result.top_queries) = Len(rows)
                  /\ \A i \in 1..Len(rows) :
                        result.top_queries[i] = FormatRow(rows[i])
                  /\ (/\ Len(rows) = 2
                      /\ rows[1] = [keys |-> <<"shoes">>, clicks |-> 10,
                                    impressions |-> 200, ctr |-> Ratio(50000, 1, 0),
                                    position |-> Float(3140000, 1)]
                      /\ rows[2] = [keys |-> <<"boots">>, clicks |-> 5,
                                    impressions |-> 100, ctr |-> Ratio(50000, 1, 0),
                                    position |-> Float(7000000, 0)])
                     => result.top_queries =
                          <<[dimension_0 |-> "shoes", clicks |-> 10,
                             impressions |-> 200, ctr |-> 5000000,
                             position |-> 3100000],
                            [dimension_0 |-> "boots", clicks |-> 5,
                             impressions |-> 100, ctr |-> 5000000,
                             position |-> 7000000]>>

\* get_top_queries has returned the rows shoes and boots for the site
\* https://a.com/ on 2024-03-04
C20_Witness ==
    /\ op = "get_top_queries"
    /\ Succeeded
    /\ now = 19786
    /\ args.site_url = "https%3A%2F%2Fa.com%2F"
    /\ sent[1].body.startDate = "2024-02-23"
    /\ sent[1].body.endDate = "2024-03-01"
    /\ outcome.value.json.site_url = "https://a.com/"
    /\ outcome.value.json.period = "2024-02-23 to 2024-03-01"
    /\ Len(outcome.value.json.top_queries) = 2
    /\ outcome.value.json.top_queries[1]["dimension_0"] = "shoes"
    /\ outcome.value.json.top_queries[1]["ctr"] = 5000000
    /\ outcome.value.json.top_queries[1]["position"] = 3100000
    /\ outcome.value.json.top_queries[2]["dimension_0"] = "boots"
    /\ outcome.value.json.top_queries[2]["position"] = 7000000

----------------------------------------------------------------------------
(* Specification SpecLive: the handlers, every statement of a handler that *)
(* was called being run in the end: the event loop runs a coroutine to its *)
(* return, and get_access_token(), build() and execute() return or raise   *)

\* the next statement of the handler that is running
RunHandler ==
    \/ Validate
    \/ AcquireToken
    \/ BuildService
    \/ RemoteCall
    \/ Finish

\* a handler that is running moves to its next position.  In a behaviour of
\* Spec the steps that do so are the steps of RunHandler, and one of them is
\* possible in every state where a handler is running, so that its weak
\* fairness is the weak fairness of RunHandler, with an enabling condition
\* that is read off pc.
MoveOn ==
    /\ pc \in {"validate", "token", "service", "call", "format"}
    /\ pc' \in {"token", "service", "call", "format", "done"}
    /\ pc' # pc

\* the steps that move a running handler on are those of RunHandler
MoveOnIsRunHandler == [][MoveOn <=> RunHandler]_vars

SpecLive == Spec /\ WF_pc(MoveOn)

\* a handler has been called and has not ended
Running == pc \in {"validate", "token", "service", "call", "format"}

\* the handler has ended
Terminated == pc = "done"

\* the names of the steps run so far, in order
StepNames == [i \in 1..Len(steps) |-> steps[i].name]

\* the steps of a handler that uses the remote service, in the order of its
\* statements
AllSteps == <<"validate", "token", "service", "call", "format">>

\* the invocation ended in success: every statement ran, none raised, and a
\* result (not an error object) was returned
EndedInSuccess ==
    /\ ~Failed
    /\ outcome.kind = "returned"
    /\ op \in RemoteOps => StepNames = AllSteps
    /\ op \in RemoteResources => "error" \notin DOMAIN outcome.value.json

\* the invocation ended in a categorized failure: a statement raised, and
\* the caller got the categorized message of that exception, raised by a
\* tool and returned under "error" by a resource
EndedInFailure ==
    /\ Failed
    /\ IF op \in Tools
       THEN outcome = Raised(format_error_message(failure))
       ELSE outcome = Returned(Json([error |-> format_error_message(failure)]))

\* the state of an invocation is one of: running without an outcome, ended
\* in success, ended in failure; no step has run twice
OnePassTwoOutcomes ==
    /\ Running => (outcome = NoOutcome /\ ~Failed)
    /\ Terminated => (EndedInSuccess \/ EndedInFailure)
    /\ ~(EndedInSuccess /\ EndedInFailure)
    /\ \A i, j \in 1..Len(steps) : steps[i].name = steps[j].name => i = j

(* C21: every invocation of an operation is a single validate -> call ->   *)
(* normalize pass with exactly two terminal outcomes: given that token     *)
(* acquisition and the one remote call each return or fail, an invocation  *)
(* that has started eventually terminates, and it terminates in exactly    *)
(* one of success (a result is returned) or categorized failure, never     *)
(* both, and has no outcome before it terminates.                          *)
C21_TerminatesInOneOfTwo ==
    /\ []OnePassTwoOutcomes
    /\ Running ~> Terminated

\* query_search_analytics has run its five steps and returned a result
C21_Witness ==
    /\ op = "query_search_analytics"
    /\ Terminated
    /\ StepNames = AllSteps
    /\ EndedInSuccess
    /\ outcome.value.total_rows = 2

----------------------------------------------------------------------------
(* More properties of the handlers *)

(* C22: within every invocation of an operation that uses the remote       *)
(* service the steps run in the fixed order token acquisition, then        *)
(* construction of the service from that token, then the remote call, then *)
(* formatting of the result: a remote call is issued only after the token  *)
(* step and the construction of the service have both completed in the     *)
(* same invocation, the service holding the text of that token, and a      *)
(* failure at one step prevents every later step from running.             *)
C22_FixedStepOrder ==
    op \in RemoteOps =>
        /\ Len(steps) <= Len(AllSteps)
        /\ \A i \in 1..Len(steps) : steps[i].name = AllSteps[i]
        /\ \A i \in 1..Len(steps) : steps[i].raised => i = Len(steps)
        /\ Failed => pc = "done"
        /\ sent # <<>> =>
              /\ Ran("token") /\ ~RaisedAt("token")
              /\ Ran("service") /\ ~RaisedAt("service")
              /\ access_token = Str(token)
              /\ service.credentials.token = access_token
        /\ Ran("format") => (Len(sent) = 1 /\ ~RaisedAt("call"))
        /\ RaisedAt("token") => (service = None /\ sent = <<>>)
        /\ RaisedAt("service") => (service = None /\ sent = <<>>)

\* inspect_url has run its steps in order with the token ya29.A0 and
\* returned the reply of its remote call
C22_Witness ==
    /\ op = "inspect_url"
    /\ pc = "done"
    /\ StepNames = AllSteps
    /\ ~Failed
    /\ Str(token) = "ya29.A0"
    /\ service.credentials.token = "ya29.A0"
    /\ Len(sent) = 1
    /\ outcome.kind = "returned"

\* the tools that change what the remote service holds
MutatingTools == {"submit_sitemap", "delete_sitemap", "add_site", "delete_site"}

\* the message of the confirmation of a mutating tool
ConfirmationMessage ==
    CASE op = "submit_sitemap" -> "Sitemap " \o args.feedpath \o " submitted successfully"
      [] op = "delete_sitemap" -> "Sitemap " \o args.feedpath \o " deleted successfully"
      [] op = "add_site" -> "Site " \o args.site_url \o " added successfully"
      [] op = "delete_site" -> "Site " \o args.site_url \o " deleted successfully"

(* C23: submit_sitemap, delete_sitemap, add_site and delete_site return    *)
(* the confirmation {status: 'success', message: ...} only if their single *)
(* remote call completed without failure; whenever the remote call or an   *)
(* earlier step fails, nothing is returned and the categorized failure is  *)
(* raised instead.                                                         *)
C23_ConfirmationOnlyAfterCall ==
    op \in MutatingTools =>
        /\ outcome.kind = "returned" =>
              /\ outcome.value = [status |-> "success", message |-> ConfirmationMessage]
              /\ Len(sent) = 1
              /\ Ran("call") /\ ~RaisedAt("call")
              /\ ~Failed
        /\ Failed =>
              /\ outcome.kind = "raised"
              /\ outcome.message = format_error_message(failure)
        /\ (pc = "done" /\ ~Failed) => outcome.kind = "returned"

\* delete_sitemap has confirmed after its remote call completed
C23_Witness ==
    /\ op = "delete_sitemap"
    /\ pc = "done"
    /\ Len(sent) = 1
    /\ sent[1].api = "sitemaps.delete"
    /\ ~Failed
    /\ outcome = Returned([status |-> "success",
                           message |-> "Sitemap https://a.com/sitemap.xml deleted successfully"])

\* the tools that return the reply of the remote service itself
PassThroughTools == {"get_site", "get_sitemap", "inspect_url"}

\* the list under key k of the reply received, empty when the reply has no
\* such key
EntriesReceived(k) == IF k \in DOMAIN response THEN response[k] ELSE <<>>

(* C24: the records of the remote service are passed through unmodified:   *)
(* get_site, get_sitemap and inspect_url return the reply exactly as       *)
(* received; list_sites, list_sitemaps and the resources of the sites and  *)
(* of the sitemaps of a site return the list of entries of the reply       *)
(* unchanged and in order, with total equal to the number of entries, and  *)
(* an empty list with total 0 when the reply has no siteEntry / sitemap    *)
(* key.                                                                    *)
C24_RecordsPassThrough ==
    Succeeded =>
        /\ op \in PassThroughTools => outcome.value = response
        /\ op = "list_sites" =>
              outcome.value = [sites |-> EntriesReceived("siteEntry"),
                               total |-> Len(EntriesReceived("siteEntry"))]
        /\ op = "list_sitemaps" =>
              outcome.value = [sitemaps |-> EntriesReceived("sitemap"),
                               total |-> Len(EntriesReceived("sitemap"))]
        /\ op = "get_sites_list" =>
              outcome.value.json = [sites |-> EntriesReceived("siteEntry"),
                                    total |-> Len(EntriesReceived("siteEntry"))]
        /\ op = "get_site_sitemaps" =>
              /\ outcome.value.json.sitemaps = EntriesReceived("sitemap")
              /\ outcome.value.json.total = Len(EntriesReceived("sitemap"))
        /\ (op \in {"list_sites", "get_sites_list"} /\ "siteEntry" \notin DOMAIN response)
              => (IF op = "list_sites" THEN outcome.value
                  ELSE outcome.value.json) = [sites |-> <<>>, total |-> 0]
        /\ (op = "list_sitemaps" /\ "sitemap" \notin DOMAIN response)
              => outcome.value = [sitemaps |-> <<>>, total |-> 0]

\* list_sitemaps has returned the two sitemaps of the reply in their order
C24_Witness ==
    /\ op = "list_sitemaps"
    /\ Succeeded
    /\ response = [sitemap |-> SitemapEntries]
    /\ outcome.value.total = 2
    /\ outcome.value.sitemaps[1] =
          [path |-> "https://a.com/sitemap.xml", errors |-> "0", warnings |-> "2"]
    /\ outcome.value.sitemaps[2] =
          [path |-> "https://a.com/news.xml", errors |-> "1", warnings |-> "0"]

(* C25: a failure of the validation of the dates in query_search_analytics *)
(* is itself categorized: for every pair of dates of which at least one is *)
(* not accepted, the failure raised to the caller carries exactly the      *)
(* message "An error occurred: Dates must be in YYYY-MM-DD format" (the    *)
(* wording of the unknown category), whatever the site URL, the dates and  *)
(* the other arguments, and never the permission-denied, not-found,        *)
(* unauthenticated, rate-limited or bad-request message.                   *)
C25_DateFailureIsUnknown ==
    (/\ op = "query_search_analytics"
     /\ Ran("validate")
     /\ ~StrptimeAccepts(args.start_date) \/ ~StrptimeAccepts(args.end_date)) =>
        /\ pc = "done"
        /\ outcome.kind = "raised"
        /\ outcome.message = "An error occurred: Dates must be in YYYY-MM-DD format"
        /\ outcome.message \notin {PermissionDeniedMsg, NotFoundMsg,
                                   UnauthenticatedMsg, RateLimitedMsg}
        /\ SubSeq(outcome.message, 1, 17) # "Invalid request: "

\* query_search_analytics has refused a start date with the digits 403 in
\* it, for the domain property, 100000 rows being asked for
C25_Witness ==
    /\ op = "query_search_analytics"
    /\ pc = "done"
    /\ args.site_url = "sc-domain:b.org"
    /\ args.start_date = "2024-01-403"
    /\ args.end_date = "2024-01-31"
    /\ args.row_limit = 100000
    /\ RaisedAt("validate")
    /\ outcome = Raised("An error occurred: Dates must be in YYYY-MM-DD format")

\* the rows of the reply received, none when the reply has no `rows`
RowsReceived == IF "rows" \in DOMAIN response THEN response["rows"] ELSE <<>>

\* the four figures of the summary returned
SummaryFigures ==
    [f \in MetricFields |->
        CASE f = "clicks" -> outcome.value.json.total_clicks
          [] f = "impressions" -> outcome.value.json.total_impressions
          [] f = "ctr" -> outcome.value.json.average_ctr
          [] f = "position" -> outcome.value.json.average_position]

(* C26: get_analytics_summary sends one query with rowLimit 1, no          *)
(* dimensions and the dates of get_date_range(28) (end = now - 3 days,     *)
(* start = end - 28 days); when the reply has no rows (no `rows` key, or   *)
(* an empty list) it reports total_clicks, total_impressions, average_ctr  *)
(* and average_position all as 0 and not an error, and otherwise it        *)
(* reports exactly what format_analytics_response gives for the first row  *)
(* (clicks, impressions, ctr x 100 rounded to 2 places, position rounded   *)
(* to 1 place), whatever rows follow.                                      *)
C26_SummaryOfFirstRow ==
    op = "get_analytics_summary" =>
        /\ sent # <<>> =>
              /\ Len(sent) = 1
              /\ sent[1].api = "searchanalytics.query"
              /\ sent[1].siteUrl = decoded_url
              /\ DOMAIN sent[1].body = {"startDate", "endDate", "rowLimit"}
              /\ sent[1].body.rowLimit = 1
              /\ IsCalendarDate(sent[1].body.startDate)
              /\ IsCalendarDate(sent[1].body.endDate)
              /\ DayNumber(sent[1].body.endDate) = now - 3
              /\ DayNumber(sent[1].body.startDate) = now - 3 - 28
        /\ (Ran("format") /\ RowsReceived = <<>>) =>
              /\ Succeeded
              /\ \A f \in MetricFields : SummaryFigures[f] = 0
        /\ (Ran("format") /\ RowsReceived # <<>> /\ RowsReceived[1] # None) =>
              /\ Succeeded
              /\ \A f \in MetricFields :
                    SummaryFigures[f] = FormatRow(RowsReceived[1])[f]

\* get_analytics_summary has summed up the reply of the rows shoes and
\* boots on 2024-03-04: the figures are those of shoes
C26_Witness ==
    /\ op = "get_analytics_summary"
    /\ Succeeded
    /\ now = 19786
    /\ sent[1].body = [startDate |-> "2024-02-02", endDate |-> "2024-03-01",
                       rowLimit |-> 1]
    /\ Len(RowsReceived) = 2
    /\ RowsReceived[2]["keys"] = <<"boots">>
    /\ outcome.value.json.total_clicks = 10
    /\ outcome.value.json.total_impressions = 200
    /\ outcome.value.json.average_ctr = 5000000
    /\ outcome.value.json.average_position = 3100000

----------------------------------------------------------------------------
(* Specification SpecConc: up to MaxInvocations invocations in progress at *)
(* once, each with a frame of its own, their statements interleaved        *)

\* what an invocation has not been given yet
NoInput == [kind |-> "none"]

\* the locals of a handler before it assigns them
FreshFrameLocals ==
    [token |-> None, access_token |-> "", service |-> None, decoded_url |-> "",
     date_range |-> <<"", "">>, response |-> None, failure |-> ""]

\* the frame of handler o called with arguments a; `got` keeps what the
\* collaborators gave this invocation
NewFrame(o, a) ==
    [op |-> o, args |-> a, pc |-> "validate", locals |-> FreshFrameLocals,
     got |-> [token |-> NoInput, built |-> NoInput, today |-> 0, remote |-> NoInput],
     sent |-> <<>>, outcome |-> NoOutcome]

\* the handlers and arguments of the concurrent invocations
ConcCalls ==
    {NewFrame("get_site_sitemaps", [NoArgs EXCEPT !.site_url = u]) :
        u \in {encode_site_url(v) : v \in SiteUrls}}
    \cup {NewFrame("get_top_queries",
                   [NoArgs EXCEPT !.site_url = encode_site_url("https://a.com/")])}
    \cup {NewFrame("query_search_analytics",
                   [NoArgs EXCEPT !.site_url = "https://a.com/",
                                  !.start_date = "2024/01/01",
                                  !.end_date = "2024-01-31",
                                  !.row_limit = 1000])}

\* the answers of the collaborators to a concurrent invocation
ConcFailureTexts == {Error401}
ConcTokenOutcomes == {t \in TokenOutcomes : t.raised => t.error \in ConcFailureTexts}
ConcBuildOutcomes == {b \in BuildOutcomes : ~b.raised}
ConcRemoteOutcomes(o, svc) ==
    {r \in RemoteOutcomes(o, svc) :
        IF r.raised THEN r.error \in ConcFailureTexts
        ELSE Len(Get(r.value, "rows", <<>>)) # 1 /\ Len(Get(r.value, "sitemap", <<>>)) # 1}
ConcToday == 19786

\* the module keeps the URL decoded last, and every invocation reads that
DecodedUrlOf_Last(fs, i) == fs[Len(fs)].locals.decoded_url

\* the local `decoded_url` of invocation i
DecodedUrlOf(fs, i) == fs[i].locals.decoded_url

\* frame f after its statement `name` ran with outcome res, its locals
\* becoming locs and its remote calls snt if no exception was raised
FrameAfter(f, name, res, locs, snt) ==
    [f EXCEPT !.pc = Goto(name, res.raised),
              !.locals = IF res.raised THEN [f.locals EXCEPT !.failure = res.error]
                         ELSE locs,
              !.sent = snt,
              !.outcome = IF res.raised THEN ExceptClause(f.op, res.error)
                          ELSE f.outcome]

\* the statements before get_access_token()
ValidateResult(o, a) ==
    IF /\ o = "query_search_analytics"
       /\ \/ ~validate_date(a.start_date)
          \/ ~validate_date(a.end_date)
    THEN Raise("Dates must be in YYYY-MM-DD format")
    ELSE Return(IF o \in SiteResources THEN decode_site_url(a.site_url) ELSE "")

\* a caller calls a handler while others are running
ConcInvoke ==
    /\ Len(frames) < MaxInvocations
    /\ \E f \in ConcCalls : frames' = Append(frames, f)
    /\ UNCHANGED <<dispVars, fn, arg, ret>>

ConcValidate ==
    /\ \E i \in 1..Len(frames) :
          LET f == frames[i]
              res == ValidateResult(f.op, f.args)
          IN  /\ f.pc = "validate"
              /\ frames' = [frames EXCEPT ![i] =
                    FrameAfter(f, "validate", res,
                               [f.locals EXCEPT !.decoded_url = res.value], f.sent)]
    /\ UNCHANGED <<dispVars, fn, arg, ret>>

ConcAcquireToken ==
    /\ \E i \in 1..Len(frames) : \E res \in ConcTokenOutcomes :
          LET f == [frames[i] EXCEPT !.got.token = res]
          IN  /\ f.pc = "token"
              /\ frames' = [frames EXCEPT ![i] =
                    FrameAfter(f, "token", res,
                               [f.locals EXCEPT !.token = res.value,
                                                !.access_token = Str(res.value)],
                               f.sent)]
    /\ UNCHANGED <<dispVars, fn, arg, ret>>

ConcBuildService ==
    /\ \E i \in 1..Len(frames) : \E built \in ConcBuildOutcomes :
          LET f == [frames[i] EXCEPT !.got.built = built]
              res == get_gsc_service(f.locals.access_token, built)
          IN  /\ f.pc = "service"
              /\ frames' = [frames EXCEPT ![i] =
                    FrameAfter(f, "service", res,
                               [f.locals EXCEPT !.service = res.value], f.sent)]
    /\ UNCHANGED <<dispVars, fn, arg, ret>>

ConcRemoteCall ==
    /\ \E i \in 1..Len(frames) :
          /\ frames[i].pc = "call"
          /\ \E res \in ConcRemoteOutcomes(frames[i].op, frames[i].locals.service) :
                LET f == [frames[i] EXCEPT !.got.today = ConcToday,
                                           !.got.remote = res]
                    dr == IF f.op \in DateRangeResources
                          THEN get_date_range(DateRangeDays(f.op), ConcToday)
                          ELSE f.locals.date_range
                    req == RequestOf(f.op, f.args, DecodedUrlOf(frames, i), dr)
                IN  frames' = [frames EXCEPT ![i] =
                      FrameAfter([f EXCEPT !.locals.date_range = dr], "call", res,
                                 [f.locals EXCEPT
                                    !.date_range = dr,
                                    !.response = IF KeepsResponse(f.op)
                                                 THEN res.value ELSE @],
                                 Append(f.sent, req))]
    /\ UNCHANGED <<dispVars, fn, arg, ret>>

ConcFinish ==
    /\ \E i \in 1..Len(frames) :
          LET f == frames[i]
              res == ResultOf(f.op, f.args, DecodedUrlOf(frames, i),
                              f.locals.date_range, f.locals.response)
          IN  /\ f.pc = "format"
              /\ frames' = [frames EXCEPT ![i] =
                    [FrameAfter(f, "format", res, f.locals, f.sent)
                        EXCEPT !.outcome = IF res.raised THEN @
                                           ELSE Returned(res.value)]]
    /\ UNCHANGED <<dispVars, fn, arg, ret>>

NextConc ==
    \/ ConcInvoke
    \/ ConcValidate
    \/ ConcAcquireToken
    \/ ConcBuildService
    \/ ConcRemoteCall
    \/ ConcFinish

SpecConc == Init /\ [][NextConc]_vars

\* handler o run alone from call to return with arguments a, g being what
\* the collaborators give it: the remote calls it issues and its outcome
RunAlone(o, a, g) ==
    LET checked == ValidateResult(o, a)
        url == checked.value
        svc == get_gsc_service(Str(g.token.value), g.built)
        dr == IF o \in DateRangeResources
              THEN get_date_range(DateRangeDays(o), g.today) ELSE <<"", "">>
        req == RequestOf(o, a, url, dr)
        res == ResultOf(o, a, url, dr,
                        IF KeepsResponse(o) THEN g.remote.value ELSE None)
    IN  IF checked.raised
        THEN [sent |-> <<>>, outcome |-> ExceptClause(o, checked.error)]
        ELSE IF g.token.raised
        THEN [sent |-> <<>>, outcome |-> ExceptClause(o, g.token.error)]
        ELSE IF svc.raised
        THEN [sent |-> <<>>, outcome |-> ExceptClause(o, svc.error)]
        ELSE IF g.remote.raised
        THEN [sent |-> <<req>>, outcome |-> ExceptClause(o, g.remote.error)]
        ELSE IF res.raised
        THEN [sent |-> <<req>>, outcome |-> ExceptClause(o, res.error)]
        ELSE [sent |-> <<req>>, outcome |-> Returned(res.value)]

(* C19: invocations share no mutable state: in every interleaving of the   *)
(* statements of concurrent invocations, the requests an invocation sent   *)
(* and the outcome it ended with are those of the same handler run alone   *)
(* with the same arguments, the same token and the same remote reply,      *)
(* whatever the other invocations did in between.                          *)
C19_AsIfAlone ==
    \A i \in 1..Len(frames) :
        frames[i].pc = "done" =>
            LET alone == RunAlone(frames[i].op, frames[i].args, frames[i].got)
            IN  /\ frames[i].sent = alone.sent
                /\ frames[i].outcome = alone.outcome

\* get_site_sitemaps has returned for one site after a second invocation,
\* for another site, was called and before that one ended
C19_Witness ==
    /\ Len(frames) = 2
    /\ frames[1].op = "get_site_sitemaps"
    /\ frames[1].pc = "done"
    /\ frames[1].outcome.kind = "returned"
    /\ "error" \notin DOMAIN frames[1].outcome.value.json
    /\ frames[1].outcome.value.json.site_url = "https://a.com/"
    /\ frames[2].op = "get_site_sitemaps"
    /\ frames[2].pc = "call"
    /\ frames[2].locals.decoded_url = "sc-domain:b.org"

====
